---- MODULE Spec2Model ----
(***************************************************************************)
(* Model of the payments engine (src/src/engine.rs): the Engine that owns  *)
(* the accounts and the set of used transaction ids, and the Account state *)
(* machine (deposit, withdraw, start_dispute, resolve_dispute, chargeback).*)
(* Balances keep the machine width of the source, scaled from 64 bits to   *)
(* Bits bits: available_amount is a signed word, held_amount and every     *)
(* amount an unsigned word, and `amount as i64` is the two's complement    *)
(* reinterpretation.  An operation that overflows panics when the program  *)
(* is built with overflow checks (the process aborts) and wraps when it is *)
(* built without them (the release profile the integration test runs):     *)
(* the model allows both outcomes.                                         *)
(*                                                                         *)
(* Three specifications share the engine: Spec feeds it any stream of      *)
(* records; SpecCodec runs the amount codec of src/src/util.rs on its own, *)
(* on amounts and on texts (sequences of characters); SpecMain runs main   *)
(* (src/src/main.rs) over a file of rows, from deserialization to the      *)
(* printing of the state.                                                  *)
(***************************************************************************)
EXTENDS Integers, FiniteSets, Sequences, TLC

\* ------------------------------------------------------------------ bounds
Bits == 15         \* width of a machine word (64 in the source)
MaxClient == 2     \* client ids 1..MaxClient
MaxTx == 2         \* transaction ids 1..MaxTx
MaxInt == 1        \* characters of the integer part of an amount text
MaxFrac == 5       \* characters of the fractional part of an amount text
MaxRows == 3       \* rows of an input file

W == 2 ^ Bits              \* number of values of a word
Half == 2 ^ (Bits - 1)     \* 2^63 in the source: first value whose cast is negative

Clients == 1..MaxClient
TxIds == 1..MaxTx
\* amounts a record can carry: a small one and the first one whose cast to
\* the signed type is negative
Amounts == {1, Half}

\* ----------------------------------------------------- machine arithmetic
\* the value of `u as i64` for an unsigned word u
AsI64(u) == IF u >= Half THEN u - W ELSE u
InI64(x) == -Half <= x /\ x < Half
InU64(x) == 0 <= x /\ x < W
\* the signed / unsigned word a wrapping operation leaves for the exact result x
WrapI64(x) == ((x + Half) % W) - Half
WrapU64(x) == x % W

\* ------------------------------------------------------------ amount codec
\* ten-thousandths in a unit (the 10_000 of util.rs)
Scale == 10000

\* a text is a sequence of characters; EAcute is a character that takes two
\* bytes in UTF-8, every other character of the model takes one
EAcute == "e-acute"
Digits == <<"0", "1", "2", "3", "4", "5", "6", "7", "8", "9">>
IsDigit(ch) == \E i \in 1..10 : Digits[i] = ch
DigitValue(ch) == (CHOOSE i \in 1..10 : Digits[i] = ch) - 1

\* String::len: the length in bytes
RECURSIVE ByteLen(_)
ByteLen(s) == IF s = <<>> THEN 0
              ELSE (IF Head(s) = EAcute THEN 2 ELSE 1) + ByteLen(Tail(s))

Zeros(n) == [i \in 1..n |-> "0"]

\* the number a sequence of digits denotes
RECURSIVE DecimalValue(_)
DecimalValue(s) == IF s = <<>> THEN 0
                   ELSE DecimalValue(SubSeq(s, 1, Len(s) - 1)) * 10 + DigitValue(s[Len(s)])

\* the digits of a number, as "{}" prints them
RECURSIVE Decimal(_)
Decimal(n) == IF n < 10 THEN <<Digits[n + 1]>>
              ELSE Decimal(n \div 10) \o <<Digits[(n % 10) + 1]>>

\* "{:04}": at least four digits, padded with zeros on the left
Decimal04(n) == Zeros(4 - Len(Decimal(n))) \o Decimal(n)

\* "{}.{}": the fraction printed without padding
fixed_point_4_decimal_to_float_str_unpadded(value) ==
    Decimal(value \div Scale) \o <<".">> \o Decimal(value % Scale)

\* util::fixed_point_4_decimal_to_float_str
fixed_point_4_decimal_to_float_str(value) ==
    Decimal(value \div Scale) \o <<".">> \o Decimal04(value % Scale)

\* str::split_once('.'): the text before and after the first '.', the whole
\* text and "" when it has none
SplitOnce(s) ==
    LET dots == {i \in 1..Len(s) : s[i] = "."}
    IN  IF dots = {} THEN [integer |-> s, fractional |-> <<>>]
        ELSE LET i == CHOOSE d \in dots : \A e \in dots : d <= e
             IN  [integer |-> SubSeq(s, 1, i - 1), fractional |-> SubSeq(s, i + 1, Len(s))]

\* str::parse::<u64>: an optional '+', then one digit or more, the number
\* within the unsigned word
ParseU64(s) ==
    LET digits == IF s # <<>> /\ Head(s) = "+" THEN Tail(s) ELSE s
    IN  IF digits = <<>> \/ \E i \in 1..Len(digits) : ~IsDigit(digits[i])
        THEN [ok |-> FALSE, value |-> 0]
        ELSE IF DecimalValue(digits) >= W THEN [ok |-> FALSE, value |-> 0]
        ELSE [ok |-> TRUE, value |-> DecimalValue(digits)]

\* util::first_four_chars_or_pad: '0' is pushed while the text is shorter
\* than four bytes, then result[..4] is taken, which panics when byte 4 is
\* not the boundary of a character
first_four_chars_or_pad(s) ==
    LET padded == s \o Zeros(IF ByteLen(s) < 4 THEN 4 - ByteLen(s) ELSE 0)
        cuts == {k \in 0..Len(padded) : ByteLen(SubSeq(padded, 1, k)) = 4}
    IN  IF cuts = {} THEN [panic |-> TRUE, text |-> <<>>]
        ELSE [panic |-> FALSE, text |-> SubSeq(padded, 1, CHOOSE k \in cuts : TRUE)]

\* util::float_str_to_fixed_point_4_decimal: res is "Ok" with the value,
\* "ParseError" or "Panic"; overflow tells that the multiplication or the
\* addition left the unsigned word, where value is the wrapped result and a
\* build with overflow checks panics
float_str_to_fixed_point_4_decimal(value) ==
    LET parts == SplitOnce(value)
        integer == ParseU64(parts.integer)
        product == integer.value * Scale
        four == first_four_chars_or_pad(parts.fractional)
        fractional == ParseU64(four.text)
        sum == WrapU64(product) + fractional.value
    IN  IF ~integer.ok THEN [res |-> "ParseError", value |-> 0, overflow |-> FALSE]
        ELSE IF four.panic THEN [res |-> "Panic", value |-> 0, overflow |-> ~InU64(product)]
        ELSE IF ~fractional.ok
        THEN [res |-> "ParseError", value |-> 0, overflow |-> ~InU64(product)]
        ELSE [res |-> "Ok", value |-> WrapU64(sum),
              overflow |-> ~InU64(product) \/ ~InU64(sum)]

\* the amount texts given to the parser: an integer part of up to MaxInt
\* characters, alone or followed by '.' and up to MaxFrac characters
TextChars == {"0", "1", "9", EAcute}
TextsUpTo(n) == UNION {[1..k -> TextChars] : k \in 0..n}
Texts == TextsUpTo(MaxInt)
         \cup {i \o <<".">> \o f : i \in TextsUpTo(MaxInt), f \in TextsUpTo(MaxFrac)}

\* ------------------------------------------------------------- hash maps
EmptyMap == [k \in {} |-> 0]
Put(m, k, v) == [x \in (DOMAIN m) \cup {k} |-> IF x = k THEN v ELSE m[x]]

\* ----------------------------------------------------------------- state
VARIABLES
    accounts,         \* Engine.accounts: client_id -> Account
    transactions,     \* Engine.transactions: the used tx ids
    transaction,      \* the record main holds and has not yet handed to the
                      \* engine (NoTransaction once it is moved into the call)
    processed,        \* the kind of the record the last call was given
    result,           \* what that call returned ("Ok", an error kind, "Panic");
                      \* "None" while the next call has not returned
    pc,               \* where main is: "next" (about to take a record), "process"
                      \* (about to call process_transaction), "done" (the state
                      \* is printed), "panicked"; where the codec is: "format",
                      \* "parse", "parsed"
    seen,             \* tx ids of every Deposit/Withdrawal record processed so far
    given,            \* what a call of the codec was given: "amount", "text"
                      \* ("none" when the codec is not run on its own)
    value,            \* the amount handed to fixed_point_4_decimal_to_float_str
    text,             \* the text handed to float_str_to_fixed_point_4_decimal
    parsed,           \* the amount that call returned
    input,            \* the rows of the input file
    position,         \* how many rows main has read
    printed           \* how many times the state was printed

codecVars == <<given, value, text, parsed>>
streamVars == <<input, position, printed>>
vars == <<accounts, transactions, transaction, processed, result, pc, seen,
          given, value, text, parsed, input, position, printed>>

Errors == {"DuplicateTransactionId", "AccountNotFound", "AccountLocked",
           "InsufficientFunds", "DepositNotFound", "InvalidDepositState"}

\* ---------------------------------------------------------------- Account
AccountNew == [available_amount |-> 0, held_amount |-> 0, locked |-> FALSE,
               deposits |-> EmptyMap]

\* the outcome of an account operation: the Result it returns, the account
\* it leaves (wrapped, where an addition or subtraction left the range of
\* its type) and whether one did
Outcome(res, acc, overflow) == [res |-> res, acc |-> acc, overflow |-> overflow]
Fail(res, acc) == Outcome(res, acc, FALSE)

\* deposit without the check of the lock
deposit_unlocked(acc, tx_id, amount) ==
    LET sum == acc.available_amount + AsI64(amount)
    IN  Outcome("Ok",
                [acc EXCEPT !.deposits = Put(@, tx_id, [amount |-> amount, state |-> "Valid"]),
                            !.available_amount = WrapI64(sum)],
                ~InI64(sum))

\* Account::deposit
deposit(acc, tx_id, amount) ==
    IF acc.locked THEN Fail("AccountLocked", acc)
    ELSE LET sum == acc.available_amount + AsI64(amount)
         IN  Outcome("Ok",
                     [acc EXCEPT !.deposits = Put(@, tx_id, [amount |-> amount, state |-> "Valid"]),
                                 !.available_amount = WrapI64(sum)],
                     ~InI64(sum))

\* withdraw that subtracts before it checks the balance
withdraw_then_check(acc, amount) ==
    IF acc.locked THEN Fail("AccountLocked", acc)
    ELSE LET diff == acc.available_amount - AsI64(amount)
             after == [acc EXCEPT !.available_amount = WrapI64(diff)]
         IN  IF diff >= 0 THEN Outcome("Ok", after, ~InI64(diff))
             ELSE Fail("InsufficientFunds", after)

\* Account::withdraw
withdraw(acc, amount) ==
    IF acc.locked THEN Fail("AccountLocked", acc)
    ELSE IF acc.available_amount >= AsI64(amount)
         THEN LET diff == acc.available_amount - AsI64(amount)
              IN  Outcome("Ok", [acc EXCEPT !.available_amount = WrapI64(diff)], ~InI64(diff))
         ELSE Fail("InsufficientFunds", acc)

\* start_dispute that accepts a deposit already in dispute
start_dispute_again(acc, tx_id) ==
    IF tx_id \notin DOMAIN acc.deposits THEN Fail("DepositNotFound", acc)
    ELSE LET d == acc.deposits[tx_id]
             diff == acc.available_amount - AsI64(d.amount)
             sum == acc.held_amount + d.amount
         IN  IF d.state # "ChargedBack"
             THEN Outcome("Ok",
                          [acc EXCEPT !.deposits[tx_id].state = "InDispute",
                                      !.available_amount = WrapI64(diff),
                                      !.held_amount = WrapU64(sum)],
                          ~InI64(diff) \/ ~InU64(sum))
             ELSE Fail("InvalidDepositState", acc)

\* start_dispute that checks the lock as deposit and withdraw do
start_dispute_checks_lock(acc, tx_id) ==
    IF acc.locked THEN Fail("AccountLocked", acc)
    ELSE IF tx_id \notin DOMAIN acc.deposits THEN Fail("DepositNotFound", acc)
    ELSE LET d == acc.deposits[tx_id]
             diff == acc.available_amount - AsI64(d.amount)
             sum == acc.held_amount + d.amount
         IN  IF d.state = "Valid"
             THEN Outcome("Ok",
                          [acc EXCEPT !.deposits[tx_id].state = "InDispute",
                                      !.available_amount = WrapI64(diff),
                                      !.held_amount = WrapU64(sum)],
                          ~InI64(diff) \/ ~InU64(sum))
             ELSE Fail("InvalidDepositState", acc)

\* Account::start_dispute
start_dispute(acc, tx_id) ==
    IF tx_id \notin DOMAIN acc.deposits THEN Fail("DepositNotFound", acc)
    ELSE LET d == acc.deposits[tx_id]
             diff == acc.available_amount - AsI64(d.amount)
             sum == acc.held_amount + d.amount
         IN  IF d.state = "Valid"
             THEN Outcome("Ok",
                          [acc EXCEPT !.deposits[tx_id].state = "InDispute",
                                      !.available_amount = WrapI64(diff),
                                      !.held_amount = WrapU64(sum)],
                          ~InI64(diff) \/ ~InU64(sum))
             ELSE Fail("InvalidDepositState", acc)

\* resolve_dispute that releases the funds and leaves them held as well
resolve_dispute_keeps_held(acc, tx_id) ==
    IF tx_id \notin DOMAIN acc.deposits THEN Fail("DepositNotFound", acc)
    ELSE LET d == acc.deposits[tx_id]
             sum == acc.available_amount + AsI64(d.amount)
         IN  IF d.state = "InDispute"
             THEN Outcome("Ok",
                          [acc EXCEPT !.deposits[tx_id].state = "Valid",
                                      !.available_amount = WrapI64(sum)],
                          ~InI64(sum))
             ELSE Fail("InvalidDepositState", acc)

\* Account::resolve_dispute
resolve_dispute(acc, tx_id) ==
    IF tx_id \notin DOMAIN acc.deposits THEN Fail("DepositNotFound", acc)
    ELSE LET d == acc.deposits[tx_id]
             sum == acc.available_amount + AsI64(d.amount)
             diff == acc.held_amount - d.amount
         IN  IF d.state = "InDispute"
             THEN Outcome("Ok",
                          [acc EXCEPT !.deposits[tx_id].state = "Valid",
                                      !.available_amount = WrapI64(sum),
                                      !.held_amount = WrapU64(diff)],
                          ~InI64(sum) \/ ~InU64(diff))
             ELSE Fail("InvalidDepositState", acc)

\* chargeback that only refuses a deposit already charged back
chargeback_undisputed(acc, tx_id) ==
    IF tx_id \notin DOMAIN acc.deposits THEN Fail("DepositNotFound", acc)
    ELSE LET d == acc.deposits[tx_id]
             diff == acc.held_amount - d.amount
         IN  IF d.state # "ChargedBack"
             THEN Outcome("Ok",
                          [acc EXCEPT !.deposits[tx_id].state = "ChargedBack",
                                      !.held_amount = WrapU64(diff),
                                      !.locked = TRUE],
                          ~InU64(diff))
             ELSE Fail("InvalidDepositState", acc)

\* chargeback that leaves the account unlocked
chargeback_without_lock(acc, tx_id) ==
    IF tx_id \notin DOMAIN acc.deposits THEN Fail("DepositNotFound", acc)
    ELSE LET d == acc.deposits[tx_id]
             diff == acc.held_amount - d.amount
         IN  IF d.state = "InDispute"
             THEN Outcome("Ok",
                          [acc EXCEPT !.deposits[tx_id].state = "ChargedBack",
                                      !.held_amount = WrapU64(diff)],
                          ~InU64(diff))
             ELSE Fail("InvalidDepositState", acc)

\* Account::chargeback
chargeback(acc, tx_id) ==
    IF tx_id \notin DOMAIN acc.deposits THEN Fail("DepositNotFound", acc)
    ELSE LET d == acc.deposits[tx_id]
             diff == acc.held_amount - d.amount
         IN  IF d.state = "InDispute"
             THEN Outcome("Ok",
                          [acc EXCEPT !.deposits[tx_id].state = "ChargedBack",
                                      !.held_amount = WrapU64(diff),
                                      !.locked = TRUE],
                          ~InU64(diff))
             ELSE Fail("InvalidDepositState", acc)

\* ----------------------------------------------------------------- Engine
\* the records of the stream (enum Transaction); a record without an amount
\* carries 0 in the model
Deposit(c, t, a) == [type |-> "Deposit", client_id |-> c, tx_id |-> t, amount |-> a]
Withdrawal(c, t, a) == [type |-> "Withdrawal", client_id |-> c, tx_id |-> t, amount |-> a]
Dispute(c, t) == [type |-> "Dispute", client_id |-> c, tx_id |-> t, amount |-> 0]
Resolve(c, t) == [type |-> "Resolve", client_id |-> c, tx_id |-> t, amount |-> 0]
Chargeback(c, t) == [type |-> "Chargeback", client_id |-> c, tx_id |-> t, amount |-> 0]
NoTransaction == [type |-> "None", client_id |-> 0, tx_id |-> 0, amount |-> 0]

Records ==
    {Deposit(c, t, a) : c \in Clients, t \in TxIds, a \in Amounts}
    \cup {Withdrawal(c, t, a) : c \in Clients, t \in TxIds, a \in Amounts}
    \cup {Dispute(c, t) : c \in Clients, t \in TxIds}
    \cup {Resolve(c, t) : c \in Clients, t \in TxIds}
    \cup {Chargeback(c, t) : c \in Clients, t \in TxIds}

\* the record kinds of the first arm of the tx id check
ConsumesTxId(tx) == tx.type \in {"Deposit", "Withdrawal"}

\* a tx id check that covers deposits only
TxIdAcceptedDepositOnly(used, tx) == tx.type = "Deposit" => tx.tx_id \notin used

\* no tx id check at all
TxIdAcceptedAlways(used, tx) == TRUE

\* the first match of process_transaction: FALSE when ensure! fails, that is
\* when HashSet::insert returns false
TxIdAccepted(used, tx) == ConsumesTxId(tx) => tx.tx_id \notin used

\* a first match that inserts the tx id of every record kind
TxIdsAfterCheckAllKinds(used, tx) == used \cup {tx.tx_id}

\* Engine.transactions after the first match: insert has added the id,
\* whatever the second match returns
TxIdsAfterCheck(used, tx) == IF ConsumesTxId(tx) THEN used \cup {tx.tx_id} ELSE used

\* a second match that looks every account up with get_mut, the deposit's too
DispatchKnownOnly(accs, tx) ==
    LET c == tx.client_id
    IN  IF c \notin DOMAIN accs THEN Fail("AccountNotFound", AccountNew)
        ELSE CASE tx.type = "Deposit"    -> deposit(accs[c], tx.tx_id, tx.amount)
               [] tx.type = "Withdrawal" -> withdraw(accs[c], tx.amount)
               [] tx.type = "Dispute"    -> start_dispute(accs[c], tx.tx_id)
               [] tx.type = "Resolve"    -> resolve_dispute(accs[c], tx.tx_id)
               [] tx.type = "Chargeback" -> chargeback(accs[c], tx.tx_id)

\* a second match that finds the deposit a dispute names in whichever
\* account holds it (one registry of deposits for the whole engine)
DispatchToOwner(accs, tx) ==
    LET c == tx.client_id
        owners == {o \in DOMAIN accs : tx.tx_id \in DOMAIN accs[o].deposits}
        o == IF owners = {} THEN c ELSE CHOOSE x \in owners : TRUE
    IN  IF tx.type = "Deposit"
        THEN deposit(IF c \in DOMAIN accs THEN accs[c] ELSE AccountNew, tx.tx_id, tx.amount)
        ELSE IF c \notin DOMAIN accs THEN Fail("AccountNotFound", AccountNew)
        ELSE CASE tx.type = "Withdrawal" -> withdraw(accs[c], tx.amount)
               [] tx.type = "Dispute"    -> start_dispute(accs[o], tx.tx_id)
               [] tx.type = "Resolve"    -> resolve_dispute(accs[o], tx.tx_id)
               [] tx.type = "Chargeback" -> chargeback(accs[o], tx.tx_id)

\* a second match that looks the account of a withdrawal up with
\* entry().or_insert_with() as it does the deposit's
DispatchWithdrawalCreates(accs, tx) ==
    LET c == tx.client_id
        found == IF c \in DOMAIN accs THEN accs[c] ELSE AccountNew
    IN  IF tx.type = "Deposit" THEN deposit(found, tx.tx_id, tx.amount)
        ELSE IF tx.type = "Withdrawal" THEN withdraw(found, tx.amount)
        ELSE IF c \notin DOMAIN accs THEN Fail("AccountNotFound", AccountNew)
        ELSE CASE tx.type = "Dispute"    -> start_dispute(accs[c], tx.tx_id)
               [] tx.type = "Resolve"    -> resolve_dispute(accs[c], tx.tx_id)
               [] tx.type = "Chargeback" -> chargeback(accs[c], tx.tx_id)

\* the second match of process_transaction: the account operation the record
\* is routed to, on the account found (for a deposit: found or created)
Dispatch(accs, tx) ==
    LET c == tx.client_id
    IN  IF tx.type = "Deposit"
        THEN deposit(IF c \in DOMAIN accs THEN accs[c] ELSE AccountNew, tx.tx_id, tx.amount)
        ELSE IF c \notin DOMAIN accs THEN Fail("AccountNotFound", AccountNew)
        ELSE CASE tx.type = "Withdrawal" -> withdraw(accs[c], tx.amount)
               [] tx.type = "Dispute"    -> start_dispute(accs[c], tx.tx_id)
               [] tx.type = "Resolve"    -> resolve_dispute(accs[c], tx.tx_id)
               [] tx.type = "Chargeback" -> chargeback(accs[c], tx.tx_id)

\* the account looked up with entry().or_insert_with() for every record kind
AccountsAfterEntry(accs, tx, out) == Put(accs, tx.client_id, out.acc)

\* Engine.accounts after the second match: the operation worked on the entry
\* of the map in place; no entry exists when the account was not found
AccountsAfter(accs, tx, out) ==
    IF out.res = "AccountNotFound" THEN accs ELSE Put(accs, tx.client_id, out.acc)

\* Engine::process_transaction on the engine (accs, used): the Result, the
\* engine it leaves, and whether an operation overflowed
ProcessOutcome(accs, used, tx) ==
    IF ~TxIdAccepted(used, tx)
    THEN [res |-> "DuplicateTransactionId", accounts |-> accs, transactions |-> used,
          overflow |-> FALSE]
    ELSE LET out == Dispatch(accs, tx)
         IN  [res |-> out.res, accounts |-> AccountsAfter(accs, tx, out),
              transactions |-> TxIdsAfterCheck(used, tx), overflow |-> out.overflow]

\* ------------------------------------------------------------------- main
\* the loop of main takes the next record of the input
NextRecord ==
    /\ pc = "next"
    /\ \E tx \in Records : transaction' = tx
    /\ result' = "None"
    /\ processed' = "None"
    /\ pc' = "process"
    /\ UNCHANGED <<accounts, transactions, seen, codecVars, streamVars>>

\* engine.process_transaction(transaction) runs to its return, for a record
\* of the given kind
process_transaction(type) ==
    /\ pc = "process"
    /\ transaction.type = type
    /\ LET out == ProcessOutcome(accounts, transactions, transaction)
       IN  /\ result' = out.res
           /\ accounts' = out.accounts
           /\ transactions' = out.transactions
    /\ seen' = IF ConsumesTxId(transaction) THEN seen \cup {transaction.tx_id} ELSE seen
    /\ transaction' = NoTransaction
    /\ processed' = type
    /\ pc' = "next"
    /\ UNCHANGED <<codecVars, streamVars>>

ProcessDeposit == process_transaction("Deposit")
ProcessWithdrawal == process_transaction("Withdrawal")
ProcessDispute == process_transaction("Dispute")
ProcessResolve == process_transaction("Resolve")
ProcessChargeback == process_transaction("Chargeback")

\* engine.process_transaction(transaction) panics on an overflow (a build
\* with overflow checks): the process aborts
Abort ==
    /\ pc = "process"
    /\ ProcessOutcome(accounts, transactions, transaction).overflow
    /\ result' = "Panic"
    /\ pc' = "panicked"
    /\ UNCHANGED <<accounts, transactions, transaction, processed, seen,
                   codecVars, streamVars>>

\* the engine of Engine::new(), no record in hand
EngineInit ==
    /\ accounts = EmptyMap
    /\ transactions = {}
    /\ transaction = NoTransaction
    /\ processed = "None"
    /\ result = "None"
    /\ seen = {}

CodecIdle == given = "none" /\ value = 0 /\ text = <<>> /\ parsed = 0
StreamIdle == input = <<>> /\ position = 0 /\ printed = 0

Init ==
    /\ EngineInit
    /\ CodecIdle
    /\ StreamIdle
    /\ pc = "next"

Next ==
    \/ NextRecord
    \/ ProcessDeposit
    \/ ProcessWithdrawal
    \/ ProcessDispute
    \/ ProcessResolve
    \/ ProcessChargeback
    \/ Abort

Spec == Init /\ [][Next]_vars

\* -------------------------------------------------- the codec on its own
\* the codec is given an amount of the unsigned word to format, or a text
\* to parse
CodecInit ==
    /\ EngineInit
    /\ StreamIdle
    /\ parsed = 0
    /\ \/ given = "amount" /\ value \in 0..(W - 1) /\ text = <<>> /\ pc = "format"
       \/ given = "text" /\ value = 0 /\ text \in Texts /\ pc = "parse"

\* the amount is formatted; the text it gives is parsed next
Format ==
    /\ pc = "format"
    /\ text' = fixed_point_4_decimal_to_float_str(value)
    /\ pc' = "parse"
    /\ UNCHANGED <<accounts, transactions, transaction, processed, result, seen,
                   given, value, parsed, streamVars>>

\* float_str_to_fixed_point_4_decimal(text) runs to its end: it returns, or
\* panics in the slice
Parse ==
    /\ pc = "parse"
    /\ LET out == float_str_to_fixed_point_4_decimal(text)
       IN  /\ result' = out.res
           /\ parsed' = out.value
           /\ pc' = IF out.res = "Panic" THEN "panicked" ELSE "parsed"
    /\ UNCHANGED <<accounts, transactions, transaction, processed, seen,
                   given, value, text, streamVars>>

\* it panics on an overflow (a build with overflow checks)
ParseAbort ==
    /\ pc = "parse"
    /\ float_str_to_fixed_point_4_decimal(text).overflow
    /\ result' = "Panic"
    /\ pc' = "panicked"
    /\ UNCHANGED <<accounts, transactions, transaction, processed, seen,
                   codecVars, streamVars>>

CodecNext == Format \/ Parse \/ ParseAbort

SpecCodec == CodecInit /\ [][CodecNext]_vars

\* ------------------------------------------------------- main on a file
\* the rows of the input files: every record kind for one client and one tx
\* id, with the amount field empty, a decimal text, a text that is no
\* number, and a text whose fraction has a two-byte character across its
\* fourth byte
RowAmounts == {<<>>, <<"1">>, <<EAcute>>, <<"1", ".", "0", EAcute, EAcute>>}
Rows == [transaction_type : {"Deposit", "Withdrawal", "Dispute", "Resolve", "Chargeback"},
         client : {1}, tx : {1}, amount : RowAmounts]
Files == UNION {[1..n -> Rows] : n \in 0..MaxRows}

\* deserialize::<RawTransaction> on a row: res is "Ok" with the
\* RawTransaction, "ParseError" or "Panic" (deserialize_fixed_point: an
\* empty field is None, any other text goes through the amount parser)
Deserialize(row) ==
    LET out == float_str_to_fixed_point_4_decimal(row.amount)
        raw(amount) == [transaction_type |-> row.transaction_type, client |-> row.client,
                        tx |-> row.tx, amount |-> amount]
    IN  IF row.amount = <<>>
        THEN [res |-> "Ok", raw |-> raw([some |-> FALSE, value |-> 0]), overflow |-> FALSE]
        ELSE [res |-> out.res, raw |-> raw([some |-> out.res = "Ok", value |-> out.value]),
              overflow |-> out.overflow]

\* TryFrom<RawTransaction> for Transaction: a deposit and a withdrawal need
\* an amount, the other kinds must have none
try_from(raw) ==
    IF raw.transaction_type \in {"Deposit", "Withdrawal"}
    THEN IF raw.amount.some
         THEN [ok |-> TRUE,
               transaction |-> [type |-> raw.transaction_type, client_id |-> raw.client,
                                tx_id |-> raw.tx, amount |-> raw.amount.value]]
         ELSE [ok |-> FALSE, transaction |-> NoTransaction]
    ELSE IF ~raw.amount.some
         THEN [ok |-> TRUE,
               transaction |-> [type |-> raw.transaction_type, client_id |-> raw.client,
                                tx_id |-> raw.tx, amount |-> 0]]
         ELSE [ok |-> FALSE, transaction |-> NoTransaction]

\* the loop reads a row that deserializes and normalizes: Ok(Ok(t))
ValidRow ==
    /\ pc = "next"
    /\ position < Len(input)
    /\ LET d == Deserialize(input[position + 1])
       IN  /\ d.res = "Ok"
           /\ try_from(d.raw).ok
           /\ transaction' = try_from(d.raw).transaction
    /\ position' = position + 1
    /\ result' = "None"
    /\ processed' = "None"
    /\ pc' = "process"
    /\ UNCHANGED <<accounts, transactions, seen, codecVars, input, printed>>

\* the loop reads a row that fails to deserialize (Err(e)) or to normalize
\* (Ok(Err(e))): it is reported and the loop continues
InvalidRow ==
    /\ pc = "next"
    /\ position < Len(input)
    /\ LET d == Deserialize(input[position + 1])
       IN  \/ d.res = "ParseError"
           \/ d.res = "Ok" /\ ~try_from(d.raw).ok
    /\ position' = position + 1
    /\ result' = "InvalidRow"
    /\ processed' = "None"
    /\ UNCHANGED <<accounts, transactions, transaction, seen, pc, codecVars, input, printed>>

\* the loop reads a row whose deserialization panics (in the slice of
\* first_four_chars_or_pad, or on an overflow in a build with overflow
\* checks): the process aborts
DeserializeAbort ==
    /\ pc = "next"
    /\ position < Len(input)
    /\ LET d == Deserialize(input[position + 1])
       IN  d.res = "Panic" \/ d.overflow
    /\ position' = position + 1
    /\ result' = "Panic"
    /\ pc' = "panicked"
    /\ UNCHANGED <<accounts, transactions, transaction, processed, seen, codecVars,
                   input, printed>>

\* the input is exhausted: engine.print_state_csv() (what it prints is not
\* part of the model)
print_state_csv ==
    /\ pc = "next"
    /\ position = Len(input)
    /\ printed' = printed + 1
    /\ pc' = "done"
    /\ UNCHANGED <<accounts, transactions, transaction, processed, result, seen,
                   codecVars, input, position>>

MainInit ==
    /\ EngineInit
    /\ CodecIdle
    /\ input \in Files
    /\ position = 0
    /\ printed = 0
    /\ pc = "next"

\* no account operation overflows on the amounts of Rows, so Abort has no
\* part here
MainNext ==
    \/ ValidRow
    \/ InvalidRow
    \/ DeserializeAbort
    \/ ProcessDeposit
    \/ ProcessWithdrawal
    \/ ProcessDispute
    \/ ProcessResolve
    \/ ProcessChargeback
    \/ print_state_csv

SpecMain == MainInit /\ [][MainNext]_vars

TypeOK ==
    /\ DOMAIN accounts \subseteq Clients
    /\ transactions \subseteq TxIds
    /\ transaction \in Records \cup {NoTransaction}
    /\ result \in Errors \cup {"Ok", "Panic", "None"}
    /\ pc \in {"next", "process", "panicked"}
    /\ CodecIdle
    /\ StreamIdle
    /\ \A c \in DOMAIN accounts :
          /\ InI64(accounts[c].available_amount)
          /\ InU64(accounts[c].held_amount)
          /\ accounts[c].locked \in BOOLEAN
          /\ DOMAIN accounts[c].deposits \subseteq TxIds
          /\ \A t \in DOMAIN accounts[c].deposits :
                /\ accounts[c].deposits[t].amount \in Amounts
                /\ accounts[c].deposits[t].state \in {"Valid", "InDispute", "ChargedBack"}

\* ------------------------------------------------------------- properties
\* a step in which process_transaction returns (for the record `transaction`,
\* with Result result')
ProcessStep == pc = "process" /\ pc' = "next"

\* the exact sum of the amounts of the deposits of S
RECURSIVE SumAmounts(_, _)
SumAmounts(deps, S) ==
    IF S = {} THEN 0
    ELSE LET t == CHOOSE x \in S : TRUE
         IN  deps[t].amount + SumAmounts(deps, S \ {t})

InState(acc, state) == {t \in DOMAIN acc.deposits : acc.deposits[t].state = state}

\* C1: in every reachable state, every account's held equals the sum of the
\* amounts of its deposits in state InDispute.
C1_HeldIsDisputedSum ==
    \A c \in DOMAIN accounts :
        accounts[c].held_amount = SumAmounts(accounts[c].deposits, InState(accounts[c], "InDispute"))

\* C2: a Deposit or Withdrawal whose tx_id is the tx_id of an earlier Deposit
\* or Withdrawal record (of any client, whatever became of that record) is
\* rejected with DuplicateTransactionId and no account is created or changed.
C2_DuplicateTxIdRejected ==
    [][(ProcessStep /\ ConsumesTxId(transaction) /\ transaction.tx_id \in seen)
          => (result' = "DuplicateTransactionId" /\ accounts' = accounts)]_vars

\* a withdrawal that reuses a tx_id was just rejected, in an engine that
\* holds accounts of two clients
C2_Witness ==
    /\ result = "DuplicateTransactionId"
    /\ processed = "Withdrawal"
    /\ Cardinality(DOMAIN accounts) >= 2

\* C3 as claimed: whenever process_transaction returns an error, the accounts
\* and the used tx ids are as before the call.
C3_RejectionChangesNothing ==
    [][(ProcessStep /\ result' \in Errors)
          => (accounts' = accounts /\ transactions' = transactions)]_vars

\* C3 amended: whenever process_transaction returns an error, the accounts
\* are as before the call, and the used tx ids are as before the call except
\* that the tx_id of a rejected Deposit or Withdrawal is among them.
C3_RejectionKeepsAccounts ==
    [][(ProcessStep /\ result' \in Errors)
          => /\ accounts' = accounts
             /\ transactions' = IF ConsumesTxId(transaction)
                                THEN transactions \cup {transaction.tx_id}
                                ELSE transactions]_vars

\* a withdrawal for a client without account was rejected and its id is used
C3_Witness ==
    /\ result = "AccountNotFound"
    /\ processed = "Withdrawal"
    /\ accounts = EmptyMap
    /\ transactions # {}

AccountErrors == {"AccountLocked", "InsufficientFunds", "DepositNotFound", "InvalidDepositState"}

\* C4: whenever one of the five account operations returns an error, the
\* account it was called on (available, held, locked, every deposit record)
\* is exactly as before the call.
C4_AccountErrorKeepsAccount ==
    [][(ProcessStep /\ result' \in AccountErrors)
          => /\ transaction.client_id \in DOMAIN accounts
             /\ transaction.client_id \in DOMAIN accounts'
             /\ accounts'[transaction.client_id] = accounts[transaction.client_id]]_vars

\* a chargeback of a deposit that is not in dispute was rejected, on an
\* account that has balances to lose
C4_Witness ==
    /\ result = "InvalidDepositState"
    /\ processed = "Chargeback"
    /\ \E c \in DOMAIN accounts : accounts[c].available_amount > 0

\* C5: withdraw(amount) fails with AccountLocked on a locked account;
\* otherwise fails with InsufficientFunds when available < amount, leaving the
\* account unchanged; otherwise succeeds, decreases available by exactly
\* amount and leaves held, locked and the deposit records unchanged.
C5_Withdraw ==
    [][(/\ ProcessStep
        /\ transaction.type = "Withdrawal"
        /\ transaction.tx_id \notin transactions
        /\ transaction.client_id \in DOMAIN accounts)
          => LET acc == accounts[transaction.client_id]
                 after == accounts'[transaction.client_id]
             IN  IF acc.locked
                 THEN result' = "AccountLocked"
                 ELSE IF acc.available_amount < transaction.amount
                 THEN result' = "InsufficientFunds" /\ after = acc
                 ELSE /\ result' = "Ok"
                      /\ after = [acc EXCEPT !.available_amount = @ - transaction.amount]]_vars

\* C6 as claimed: a locked account stays locked, and every later Deposit and
\* Withdrawal record for its client is rejected with AccountLocked and leaves
\* the account (balances, deposit records) unchanged.
C6_LockedRejectsWithAccountLocked ==
    [][\A c \in DOMAIN accounts :
          accounts[c].locked
            => /\ c \in DOMAIN accounts'
               /\ accounts'[c].locked
               /\ (ProcessStep /\ ConsumesTxId(transaction) /\ transaction.client_id = c)
                     => (result' = "AccountLocked" /\ accounts'[c] = accounts[c])]_vars

\* C6 amended: a locked account stays locked, and every later Deposit and
\* Withdrawal record for its client is rejected and leaves the account
\* unchanged: with DuplicateTransactionId when its tx_id is that of an earlier
\* Deposit or Withdrawal record, with AccountLocked otherwise.
C6_LockedRejects ==
    [][\A c \in DOMAIN accounts :
          accounts[c].locked
            => /\ c \in DOMAIN accounts'
               /\ accounts'[c].locked
               /\ (ProcessStep /\ ConsumesTxId(transaction) /\ transaction.client_id = c)
                     => /\ result' = IF transaction.tx_id \in seen
                                     THEN "DuplicateTransactionId"
                                     ELSE "AccountLocked"
                        /\ accounts'[c] = accounts[c]]_vars

\* a deposit with a fresh tx_id was just rejected by a locked account
C6_Witness ==
    /\ result = "AccountLocked"
    /\ processed = "Deposit"
    /\ \E c \in DOMAIN accounts :
          accounts[c].locked /\ InState(accounts[c], "ChargedBack") # {}

\* C7: a deposit record starts Valid; its state changes only Valid ->
\* InDispute by a Dispute, InDispute -> Valid by a Resolve and InDispute ->
\* ChargedBack by a Chargeback of its own client and tx_id (so ChargedBack is
\* final); it is never removed and its amount never changes.
C7_DepositLifecycle ==
    [][/\ \A c \in DOMAIN accounts : \A t \in DOMAIN accounts[c].deposits :
            /\ c \in DOMAIN accounts'
            /\ t \in DOMAIN accounts'[c].deposits
            /\ accounts'[c].deposits[t].amount = accounts[c].deposits[t].amount
            /\ LET old == accounts[c].deposits[t].state
                   new == accounts'[c].deposits[t].state
               IN  \/ new = old
                   \/ /\ ProcessStep
                      /\ \/ old = "Valid" /\ new = "InDispute" /\ transaction = Dispute(c, t)
                         \/ old = "InDispute" /\ new = "Valid" /\ transaction = Resolve(c, t)
                         \/ old = "InDispute" /\ new = "ChargedBack" /\ transaction = Chargeback(c, t)
       /\ \A c \in DOMAIN accounts' : \A t \in DOMAIN accounts'[c].deposits :
            (c \notin DOMAIN accounts \/ t \notin DOMAIN accounts[c].deposits)
              => /\ accounts'[c].deposits[t].state = "Valid"
                 /\ ProcessStep
                 /\ transaction = Deposit(c, t, accounts'[c].deposits[t].amount)]_vars

\* a dispute was just resolved in an engine that also holds a charged back
\* deposit: all three transitions have been taken
C7_Witness ==
    /\ result = "Ok"
    /\ processed = "Resolve"
    /\ \E c \in DOMAIN accounts : InState(accounts[c], "ChargedBack") # {}

\* C8: a successful start_dispute of a deposit of amount a in state Valid
\* decreases available by exactly a, increases held by exactly a, and leaves
\* locked and every other deposit record unchanged.
C8_DisputeMovesAmount ==
    [][(ProcessStep /\ transaction.type = "Dispute" /\ result' = "Ok")
          => LET acc == accounts[transaction.client_id]
                 after == accounts'[transaction.client_id]
                 d == acc.deposits[transaction.tx_id]
             IN  /\ d.state = "Valid"
                 /\ after.available_amount = acc.available_amount - d.amount
                 /\ after.held_amount = acc.held_amount + d.amount
                 /\ after.available_amount + after.held_amount
                       = acc.available_amount + acc.held_amount
                 /\ after.locked = acc.locked
                 /\ after.deposits = [acc.deposits EXCEPT ![transaction.tx_id].state = "InDispute"]]_vars

\* C9: resolving reverses a dispute exactly: after a successful Dispute of a
\* client's deposit, a Resolve of the same deposit processed next succeeds and
\* leaves the accounts as they were before the Dispute; and after a
\* successful Resolve, a Dispute of the same deposit processed next succeeds.
C9_ResolveReversesDispute ==
    [][(ProcessStep /\ result' = "Ok")
          => LET c == transaction.client_id
                 t == transaction.tx_id
             IN  /\ transaction.type = "Dispute"
                    => LET back == ProcessOutcome(accounts', transactions', Resolve(c, t))
                       IN  /\ accounts[c].deposits[t].state = "Valid"
                           /\ back.res = "Ok"
                           /\ back.accounts = accounts
                 /\ transaction.type = "Resolve"
                    => ProcessOutcome(accounts', transactions', Dispute(c, t)).res = "Ok"]_vars

\* a dispute was just resolved on an account whose only deposit, of amount
\* 1, had been withdrawn before: the dispute had taken available to -1
C9_Witness ==
    /\ result = "Ok"
    /\ processed = "Resolve"
    /\ \E c \in DOMAIN accounts : \E t \in TxIds :
          /\ DOMAIN accounts[c].deposits = {t}
          /\ accounts[c].deposits[t] = [amount |-> 1, state |-> "Valid"]
          /\ accounts[c].available_amount = 0
          /\ accounts[c].held_amount = 0

\* C10: a successful chargeback of a deposit of amount a in state InDispute
\* decreases held by exactly a, leaves available unchanged, sets locked, and
\* moves that deposit to ChargedBack, every other deposit record unchanged.
C10_ChargebackRemovesHeld ==
    [][(ProcessStep /\ transaction.type = "Chargeback" /\ result' = "Ok")
          => LET acc == accounts[transaction.client_id]
                 after == accounts'[transaction.client_id]
                 d == acc.deposits[transaction.tx_id]
             IN  /\ d.state = "InDispute"
                 /\ after.held_amount = acc.held_amount - d.amount
                 /\ after.available_amount = acc.available_amount
                 /\ after.locked
                 /\ after.deposits = [acc.deposits EXCEPT ![transaction.tx_id].state = "ChargedBack"]]_vars

DisputeKinds == {"Dispute", "Resolve", "Chargeback"}

\* C11: on an existing account, a Dispute returns Ok exactly when the account
\* holds a deposit record for the tx_id in state Valid, a Resolve or a
\* Chargeback exactly when it holds one in state InDispute; otherwise the
\* call fails with DepositNotFound when the account holds no record for the
\* tx_id and with InvalidDepositState when the record is in another state.
C11_DisputeOutcome ==
    [][(ProcessStep /\ transaction.type \in DisputeKinds
                    /\ transaction.client_id \in DOMAIN accounts)
          => LET deps == accounts[transaction.client_id].deposits
                 t == transaction.tx_id
                 required == IF transaction.type = "Dispute" THEN "Valid" ELSE "InDispute"
             IN  result' = IF t \notin DOMAIN deps THEN "DepositNotFound"
                           ELSE IF deps[t].state = required THEN "Ok"
                           ELSE "InvalidDepositState"]_vars

\* a Dispute was just refused with InvalidDepositState on an account whose
\* only deposit is already in dispute
C11_Witness ==
    /\ result = "InvalidDepositState"
    /\ processed = "Dispute"
    /\ \E c \in DOMAIN accounts :
          /\ DOMAIN accounts = {c}
          /\ \E t \in TxIds : /\ DOMAIN accounts[c].deposits = {t}
                              /\ accounts[c].deposits[t].state = "InDispute"

\* the account a Deposit creates when the client has none: available 0,
\* held 0, unlocked, no deposits
FreshAccount == [available_amount |-> 0, held_amount |-> 0, locked |-> FALSE,
                 deposits |-> EmptyMap]

\* C12 as stated: a Deposit for a client without an account creates a fresh
\* account and applies the deposit to it; a Withdrawal, Dispute, Resolve or
\* Chargeback for a client without an account fails with AccountNotFound
\* and creates no account.
C12_UnknownClient ==
    [][(ProcessStep /\ transaction.client_id \notin DOMAIN accounts)
          => IF transaction.type = "Deposit"
             THEN /\ result' = "Ok"
                  /\ accounts' = Put(accounts, transaction.client_id,
                                     deposit(FreshAccount, transaction.tx_id,
                                             transaction.amount).acc)
             ELSE /\ result' = "AccountNotFound"
                  /\ accounts' = accounts]_vars

\* C12, amended: the same for a record that passes the tx id check (every
\* Dispute, Resolve and Chargeback, and a Deposit or Withdrawal whose tx_id
\* no earlier Deposit or Withdrawal carried); a Deposit or Withdrawal with a
\* used tx_id for a client without an account is rejected with
\* DuplicateTransactionId and creates no account.
C12_UnknownClientUnusedTxId ==
    [][(ProcessStep /\ transaction.client_id \notin DOMAIN accounts)
          => IF ConsumesTxId(transaction) /\ transaction.tx_id \in seen
             THEN /\ result' = "DuplicateTransactionId"
                  /\ accounts' = accounts
             ELSE IF transaction.type = "Deposit"
             THEN /\ result' = "Ok"
                  /\ accounts' = Put(accounts, transaction.client_id,
                                     deposit(FreshAccount, transaction.tx_id,
                                             transaction.amount).acc)
             ELSE /\ result' = "AccountNotFound"
                  /\ accounts' = accounts]_vars

\* a Withdrawal with an unused tx_id was just refused with AccountNotFound:
\* one client has an account with one deposit, the withdrawal's id is the
\* second used id, and no second account exists
C12_Witness ==
    /\ result = "AccountNotFound"
    /\ processed = "Withdrawal"
    /\ Cardinality(DOMAIN accounts) = 1
    /\ Cardinality(transactions) = 2
    /\ \A c \in DOMAIN accounts : Cardinality(DOMAIN accounts[c].deposits) = 1

\* C16: for every amount of the unsigned range, amounts of Half (2^63) or
\* more included: on an unlocked account a withdrawal (with an unused
\* tx_id) whose amount exceeds available is rejected with InsufficientFunds,
\* no withdrawal increases available, and no successful deposit decreases
\* available (a new account starts from available 0).
C16_BalanceArithmetic ==
    [][ProcessStep
          => LET c == transaction.client_id
                 acc == IF c \in DOMAIN accounts THEN accounts[c] ELSE FreshAccount
             IN  /\ (/\ transaction.type = "Withdrawal"
                      /\ c \in DOMAIN accounts
                      /\ ~acc.locked
                      /\ transaction.tx_id \notin seen
                      /\ transaction.amount > acc.available_amount)
                        => result' = "InsufficientFunds"
                 /\ (transaction.type = "Withdrawal" /\ c \in DOMAIN accounts)
                        => accounts'[c].available_amount <= acc.available_amount
                 /\ (transaction.type = "Deposit" /\ result' = "Ok")
                        => accounts'[c].available_amount >= acc.available_amount]_vars

\* C17: on a locked account a Dispute, Resolve or Chargeback returns the
\* same Result, and leaves the same available, held and deposit records,
\* as the same call on that account with the lock cleared.
C17_LockIgnoredByDisputes ==
    [][(ProcessStep /\ transaction.type \in DisputeKinds
                    /\ transaction.client_id \in DOMAIN accounts
                    /\ accounts[transaction.client_id].locked)
          => LET c == transaction.client_id
                 unlocked == [accounts[c] EXCEPT !.locked = FALSE]
                 u == ProcessOutcome(Put(accounts, c, unlocked), transactions, transaction)
             IN  /\ result' = u.res
                 /\ accounts'[c].available_amount = u.accounts[c].available_amount
                 /\ accounts'[c].held_amount = u.accounts[c].held_amount
                 /\ accounts'[c].deposits = u.accounts[c].deposits
                 /\ accounts'[c].locked]_vars

\* a Dispute just succeeded on a locked account: one deposit of the account
\* is charged back, the other went into dispute
C17_Witness ==
    /\ result = "Ok"
    /\ processed = "Dispute"
    /\ \E c \in DOMAIN accounts :
          /\ accounts[c].locked
          /\ InState(accounts[c], "ChargedBack") # {}
          /\ InState(accounts[c], "InDispute") # {}

\* C18: processing a record of client c leaves every other account as it
\* was and creates no account but c's; a Dispute, Resolve or Chargeback of
\* c that names a tx_id in the deposit registry of another client is
\* rejected with DepositNotFound or AccountNotFound.
C18_OtherAccountsUntouched ==
    [][ProcessStep
          => LET c == transaction.client_id
             IN  /\ DOMAIN accounts \subseteq DOMAIN accounts'
                 /\ DOMAIN accounts' \subseteq DOMAIN accounts \cup {c}
                 /\ \A o \in DOMAIN accounts \ {c} : accounts'[o] = accounts[o]
                 /\ (/\ transaction.type \in DisputeKinds
                      /\ \E o \in DOMAIN accounts \ {c} :
                            transaction.tx_id \in DOMAIN accounts[o].deposits)
                        => result' \in {"DepositNotFound", "AccountNotFound"}]_vars

\* a Chargeback was just refused with DepositNotFound while two clients
\* have accounts and every tx id is a deposit of one of them, in dispute in
\* the other client's account: the client named the other client's deposit
C18_Witness ==
    /\ result = "DepositNotFound"
    /\ processed = "Chargeback"
    /\ Cardinality(DOMAIN accounts) = 2
    /\ \A t \in TxIds : \E c \in DOMAIN accounts :
          /\ t \in DOMAIN accounts[c].deposits
          /\ accounts[c].deposits[t].state = "InDispute"

\* C19 as stated: a Dispute, Resolve or Chargeback never adds to the used
\* tx ids and is never rejected as a duplicate; one that names a tx_id no
\* Deposit or Withdrawal has carried is rejected, changes nothing, and
\* leaves the engine accepting a Deposit with that tx_id, for any client,
\* and recording it in state Valid.
C19_LaterDepositAccepted ==
    [][(ProcessStep /\ transaction.type \in DisputeKinds)
          => /\ transactions' = transactions
             /\ result' # "DuplicateTransactionId"
             /\ transaction.tx_id \notin seen
                   => /\ result' \in {"DepositNotFound", "AccountNotFound"}
                      /\ accounts' = accounts
                      /\ \A c \in Clients, a \in Amounts :
                            LET later == ProcessOutcome(accounts', transactions',
                                                        Deposit(c, transaction.tx_id, a))
                            IN  /\ later.res = "Ok"
                                /\ later.accounts[c].deposits[transaction.tx_id]
                                      = [amount |-> a, state |-> "Valid"]]_vars

\* C19, amended: the same, the later Deposit being for a client whose
\* account, if it has one, is not locked.
C19_DisputesIgnoreUsedTxIds ==
    [][(ProcessStep /\ transaction.type \in DisputeKinds)
          => /\ transactions' = transactions
             /\ result' # "DuplicateTransactionId"
             /\ transaction.tx_id \notin seen
                   => /\ result' \in {"DepositNotFound", "AccountNotFound"}
                      /\ accounts' = accounts
                      /\ \A c \in Clients, a \in Amounts :
                            (c \in DOMAIN accounts' => ~accounts'[c].locked)
                               => LET later == ProcessOutcome(accounts', transactions',
                                                              Deposit(c, transaction.tx_id, a))
                                  IN  /\ later.res = "Ok"
                                      /\ later.accounts[c].deposits[transaction.tx_id]
                                            = [amount |-> a, state |-> "Valid"]]_vars

\* a Dispute was just refused with DepositNotFound on the only account,
\* whose deposits are all the used tx ids, and an unused tx id remains: the
\* Dispute named a tx_id that no record has carried yet
C19_Witness ==
    /\ result = "DepositNotFound"
    /\ processed = "Dispute"
    /\ transactions # TxIds
    /\ \E c \in DOMAIN accounts :
          /\ DOMAIN accounts = {c}
          /\ DOMAIN accounts[c].deposits = transactions
          /\ transactions # {}

\* the accounts whose deposit registry has tx_id t as a key
Holders(accs, t) == {c \in DOMAIN accs : t \in DOMAIN accs[c].deposits}

\* C20: in every reachable state each tx_id is a key of the deposit registry
\* of at most one account and every key of a registry is a used tx id; and
\* whenever process_transaction gets as far as Account::deposit (the Deposit
\* is not rejected as a duplicate), the tx_id is a key of no registry.
C20_DepositNeverOverwrites ==
    /\ [](\A t \in TxIds : /\ Cardinality(Holders(accounts, t)) <= 1
                           /\ Holders(accounts, t) # {} => t \in transactions)
    /\ [][(ProcessStep /\ transaction.type = "Deposit"
                       /\ result' # "DuplicateTransactionId")
             => Holders(accounts, transaction.tx_id) = {}]_vars

\* a Deposit was just rejected as a duplicate while two accounts hold one
\* deposit each: one of the two ids was offered again
C20_Witness ==
    /\ result = "DuplicateTransactionId"
    /\ processed = "Deposit"
    /\ Cardinality(DOMAIN accounts) = 2
    /\ \A c \in DOMAIN accounts : Cardinality(DOMAIN accounts[c].deposits) = 1

\* C14: an amount of the unsigned word that was formatted and whose text
\* was then parsed: the parser returned, without panic, Ok with the amount
\* that was formatted.
C14_RoundTrip ==
    (given = "amount" /\ pc \in {"parsed", "panicked"})
       => (pc = "parsed" /\ result = "Ok" /\ parsed = value)

\* an amount of Half or more whose fraction needs zeros on the left went
\* through format and parse
C14_Witness ==
    /\ given = "amount"
    /\ pc = "parsed"
    /\ value >= Half
    /\ value % Scale \in 1..9
    /\ parsed = value

\* the digits-only texts I.F of the parser's inputs
IsDigits(s) == \A i \in 1..Len(s) : IsDigit(s[i])
IsDecimalText(s) ==
    /\ \E i \in 1..Len(s) : s[i] = "."
    /\ SplitOnce(s).integer # <<>>
    /\ IsDigits(SplitOnce(s).integer)
    /\ IsDigits(SplitOnce(s).fractional)

\* C15: for every text I.F of digits, the parser returns I * 10000 plus the
\* number the first four digits of F make once F is padded with '0' on the
\* right to four digits at least.
C15_ParseTruncates ==
    (given = "text" /\ pc \in {"parsed", "panicked"} /\ IsDecimalText(text))
       => LET I == SplitOnce(text).integer
              F == SplitOnce(text).fractional
          IN  /\ pc = "parsed"
              /\ result = "Ok"
              /\ parsed = DecimalValue(I) * Scale
                           + DecimalValue(SubSeq(F \o <<"0", "0", "0", "0">>, 1, 4))

\* C13: no record stops the run.  The rows are read one at a time and in
\* the order of the file, a row only once the record before it has been
\* rejected or has gone through the engine; a row that is read is either
\* rejected as invalid or handed to the engine, which returns; the state is
\* printed once, when every row has been read; the process never aborts.
C13_RunNeverStopped ==
    [][/\ input' = input
       /\ position' \in {position, position + 1}
       /\ position' = position + 1 => (pc = "next" /\ position < Len(input))
       /\ (pc = "next" /\ position < Len(input))
             => /\ position' = position + 1
                /\ \/ pc' = "next" /\ result' = "InvalidRow"
                   \/ /\ pc' = "process"
                      /\ transaction'.type = input[position'].transaction_type
                      /\ transaction'.client_id = input[position'].client
                      /\ transaction'.tx_id = input[position'].tx
       /\ pc = "process" => (pc' = "next" /\ result' \in Errors \cup {"Ok"})
       /\ printed' # printed
             => (pc = "next" /\ position = Len(input) /\ printed = 0 /\ printed' = 1)
       /\ pc' = "done" => printed' = 1
       /\ pc' # "panicked"]_vars

\* C21: available becomes negative only through start_dispute: a Deposit,
\* Withdrawal, Resolve or Chargeback never takes the account of its client
\* from available >= 0 (0 for an account the Deposit creates) to
\* available < 0; and while available is negative a Withdrawal of a
\* positive amount that reaches the balance check (unused tx_id, account
\* not locked) is rejected with InsufficientFunds.
C21_NegativeOnlyByDispute ==
    [][(ProcessStep /\ transaction.client_id \in DOMAIN accounts')
          => LET c == transaction.client_id
                 before == IF c \in DOMAIN accounts THEN accounts[c] ELSE FreshAccount
             IN  /\ (/\ transaction.type \in {"Deposit", "Withdrawal", "Resolve", "Chargeback"}
                      /\ before.available_amount >= 0)
                        => accounts'[c].available_amount >= 0
                 /\ (/\ transaction.type = "Withdrawal"
                      /\ before.available_amount < 0
                      /\ transaction.amount > 0
                      /\ ~before.locked
                      /\ transaction.tx_id \notin seen)
                        => result' = "InsufficientFunds"]_vars

\* C22 as stated: the accounts are those of the clients that were the
\* target of a Deposit or Withdrawal record, and no others.  Step by step:
\* a Deposit or Withdrawal record for client c leaves the engine with the
\* accounts it had and c's, any other record with the accounts it had.
C22_AccountPerTarget ==
    [][ProcessStep
          => DOMAIN accounts' = IF ConsumesTxId(transaction)
                                THEN DOMAIN accounts \cup {transaction.client_id}
                                ELSE DOMAIN accounts]_vars

\* C22, amended: the accounts are those of the clients that were the target
\* of a Deposit record whose tx_id no earlier Deposit or Withdrawal carried,
\* and no others: such a Deposit leaves the engine with the accounts it had
\* and its client's, any other record with the accounts it had.
C22_AccountPerAcceptedDeposit ==
    [][ProcessStep
          => DOMAIN accounts' = IF transaction.type = "Deposit" /\ transaction.tx_id \notin seen
                                THEN DOMAIN accounts \cup {transaction.client_id}
                                ELSE DOMAIN accounts]_vars

\* a Withdrawal with a fresh tx_id was just processed and the engine holds
\* no account at all
C22_Witness ==
    /\ processed = "Withdrawal"
    /\ result = "AccountNotFound"
    /\ accounts = EmptyMap
    /\ Cardinality(seen) = 1

\* available less the exact sum of the Valid deposits: minus the sum of the
\* successful withdrawals, if the balance is conserved
ValidSurplus(acc) ==
    acc.available_amount - SumAmounts(acc.deposits, InState(acc, "Valid"))

\* available + held less the exact sum of the deposits not charged back
TotalSurplus(acc) ==
    acc.available_amount + acc.held_amount
      - SumAmounts(acc.deposits, InState(acc, "Valid") \cup InState(acc, "InDispute"))

\* C23: for every account, available is the sum of its Valid deposits minus
\* the sum of its successful withdrawals, and available + held is the sum of
\* its successful deposits minus its successful withdrawals minus its
\* ChargedBack deposits.  Step by step, from the account a first deposit
\* creates (nothing deposited, nothing withdrawn): a successful Withdrawal
\* of amount a lowers both differences of its client's account by a, and
\* every other call leaves both differences of every account as they were.
C23_BalanceConservation ==
    [][ProcessStep
          => \A c \in DOMAIN accounts' :
                LET before == IF c \in DOMAIN accounts THEN accounts[c] ELSE FreshAccount
                    withdrawn == IF /\ c = transaction.client_id
                                    /\ transaction.type = "Withdrawal"
                                    /\ result' = "Ok"
                                 THEN transaction.amount ELSE 0
                IN  /\ ValidSurplus(accounts'[c]) = ValidSurplus(before) - withdrawn
                    /\ TotalSurplus(accounts'[c]) = TotalSurplus(before) - withdrawn]_vars

\* C24: in every reachable state an account is locked exactly when one of
\* its deposits is in state ChargedBack, and every account has at least one
\* deposit record.
C24_LockProvenance ==
    \A c \in DOMAIN accounts :
        /\ accounts[c].locked <=> InState(accounts[c], "ChargedBack") # {}
        /\ DOMAIN accounts[c].deposits # {}

\* one account is locked, with a deposit charged back, while another
\* client's account, with a Valid deposit of its own, is not locked
C24_Witness ==
    \E c, o \in DOMAIN accounts :
        /\ accounts[c].locked
        /\ InState(accounts[c], "ChargedBack") # {}
        /\ ~accounts[o].locked
        /\ InState(accounts[o], "Valid") # {}
====
